---- MODULE Spec2Model ----
(***************************************************************************)
(* Model of the Google Calendar MCP stack:                                 *)
(*   Tool Adapter (calendar_mcp_server.py / mcp_server_streamable.py)      *)
(*     -> HTTP Facade (calendar_service.py)                                *)
(*       -> Calendar Client (calendar_agent.py)                            *)
(*         -> external calendar API and SMTP relay.                        *)
(*                                                                         *)
(* The Facade's handlers are `async def` functions that call the           *)
(* synchronous agent without awaiting anything, and uvicorn runs one       *)
(* worker: a handler runs to completion before the next request is taken.  *)
(* The model therefore has one request in flight; its external calls and   *)
(* email sends are separate steps because each one has its own outcome     *)
(* (accepted / HttpError, delivered / SMTP exception).                     *)
(*                                                                         *)
(* Specifications:                                                         *)
(*   Spec            the Facade and the Calendar Client, one event id      *)
(*   SpecAdapter     a Tool Adapter turning Facade responses into results  *)
(*   SpecList        create / list / delete on a calendar that already     *)
(*                   holds other events                                    *)
(*   SpecConcurrent  two update requests outstanding at the same time,     *)
(*                   handlers as coroutines on the one event loop          *)
(*   SpecSession     a Tool Adapter's outbound HTTP session under          *)
(*                   concurrent tool invocations, up to close()            *)
(*                                                                         *)
(* Python values:  an Optional argument or a dict key is a sequence of     *)
(* length 0 (None / key absent) or 1 (the value); a JSON null stored under *)
(* a key is the value Null.  Formatted text (f-strings) is the sequence of *)
(* its pieces.                                                             *)
(***************************************************************************)
EXTENDS Integers, Sequences, FiniteSets, TLC

\* ------------------------------------------------------------------ bounds
MaxAttendees == 2
\* events in the calendar before the program's first request
MaxOthers == 10
\* tool invocations an adapter process receives before it shuts down
MaxInvocations == 3

\* ------------------------------------------------------- value domains
None == <<>>
Some(v) == <<v>>
Null == "null"
Opt(S) == {None} \cup {Some(v) : v \in S}

Emails == {"a@x", "b@x"}
Summaries == {"s1", "s2"}
Descriptions == {"d1"}
Times == {"t1", "t2"}
EndTimes == {"t2"}
Nows == {"t0", "t1", "t2"}
EventIds == {"e1"}
\* instants between t0 and t1, and between t1 and t2, in chronological
\* order: the starts of events that were in the calendar beforehand
EarlyTimes == <<"t0+01", "t0+02", "t0+03", "t0+04", "t0+05", "t0+06",
                "t0+07", "t0+08", "t0+09", "t0+10", "t0+11", "t0+12">>
LateTimes == <<"t1+01", "t1+02", "t1+03", "t1+04", "t1+05", "t1+06",
               "t1+07", "t1+08", "t1+09", "t1+10", "t1+11", "t1+12">>
Instants == <<"t0">> \o EarlyTimes \o <<"t1">> \o LateTimes \o <<"t2">>
\* ids of the events that were in the calendar beforehand
OtherIds == <<"o01", "o02", "o03", "o04", "o05", "o06",
              "o07", "o08", "o09", "o10", "o11", "o12">>
\* attendee lists of a request: up to MaxAttendees addresses, in any order,
\* no address twice in a row
AttendeeLists ==
    UNION { {l \in [1..n -> Emails] : \A i \in 1..(n - 1) : l[i] # l[i + 1]}
            : n \in 0..MaxAttendees }
ErrTexts == {"notFound", "quotaExceeded"}
SMTPErrors == {"SMTPException"}
HtmlLinks == {None, Some("htmlLink")}

\* conferenceData of an insert/update response: the key may be absent, it
\* may lack entryPoints, and an entry point may lack its uri.
EntryPoints == { [entryPointType |-> "phone", uri |-> Some("tel")],
                 [entryPointType |-> "video", uri |-> Some("meet")],
                 [entryPointType |-> "video", uri |-> None] }
ConfDatas == {None, Some([entryPoints |-> None])}
             \cup {Some([entryPoints |-> Some(<<ep>>)]) : ep \in EntryPoints}
             \cup {Some([entryPoints |-> Some(<<[entryPointType |-> "phone", uri |-> Some("tel")],
                                               [entryPointType |-> "video", uri |-> Some("meet")]>>)])}

\* Python truthiness of an Optional[List[str]], Optional[str], Optional[bool]
TruthyList(o) == o # None /\ Len(o[1]) > 0
TruthyStr(o) == o # None /\ o[1] # ""
TruthyBool(o) == o = Some("true")

\* Facade process: agent (the module-level agent and its service), the
\* request in flight (inv, pc), the locals of the running operation
\* (event, recipients, idx, result), the calls it has made (log), the
\* endpoint's answer (http); calendar is the external calendar's content.
VARIABLES agent, calendar, inv, pc, event, recipients, idx, log, result, http

\* Tool Adapter process: which adapter it is, the tool being invoked, the
\* Facade response it received and what the invocation ended in.
VARIABLES adapter, tool, response, outcome

\* Facade process, seen with several requests outstanding: handlers holds,
\* per client connection, the request received and the locals of its
\* handler coroutine; running is the coroutine that holds the event loop.
VARIABLES handlers, running

\* Tool Adapter process, seen with several invocations outstanding:
\* session is calendar_client.session (and the sessions created and closed
\* so far), invocations the tool calls and the session each one used.
VARIABLES session, invocations

facadeVars == <<agent, calendar, inv, pc, event, recipients, idx, log, result, http>>
toolVars == <<adapter, tool, response, outcome>>
taskVars == <<handlers, running, session, invocations>>
vars == <<facadeVars, toolVars, taskVars>>

\* ------------------------------------------------------------ arguments
NoArgs == [event_id |-> None, summary |-> None, start_time |-> None,
           end_time |-> None, attendees |-> None, description |-> None,
           add_meet_link |-> None]

CreateArgs == { [NoArgs EXCEPT !.summary = Some(s), !.start_time = Some(st),
                               !.end_time = Some(en), !.attendees = at,
                               !.description = d, !.add_meet_link = m] :
                  s \in Summaries, st \in Times, en \in EndTimes,
                  at \in Opt(AttendeeLists), d \in Opt(Descriptions),
                  m \in Opt({"true", "false"}) }

UpdateArgs == { [NoArgs EXCEPT !.event_id = Some(id), !.summary = s,
                               !.start_time = st, !.end_time = en,
                               !.attendees = at, !.description = d,
                               !.add_meet_link = m] :
                  id \in EventIds, s \in Opt(Summaries), st \in Opt(Times),
                  en \in Opt(EndTimes), at \in Opt(AttendeeLists),
                  d \in Opt(Descriptions), m \in Opt({"true", "false"}) }

DeleteArgs == { [NoArgs EXCEPT !.event_id = Some(id)] : id \in EventIds }

\* ------------------------------------------------------ Tool Adapter
\* CalendarServiceClient.<tool>: the JSON payload built from the tool's
\* arguments (identical code in both adapters).  A key left out of the
\* payload is None.
Marshal(op, a) ==
    CASE op = "list"   -> NoArgs
      [] op = "create" ->
           [NoArgs EXCEPT !.summary = a.summary,
                          !.start_time = a.start_time,
                          !.end_time = a.end_time,
                          !.attendees = IF TruthyList(a.attendees) THEN a.attendees ELSE None,
                          !.description = IF TruthyStr(a.description) THEN a.description ELSE None,
                          !.add_meet_link = IF TruthyBool(a.add_meet_link) THEN a.add_meet_link ELSE None]
      [] op = "delete" -> [NoArgs EXCEPT !.event_id = a.event_id]
      [] op = "update" ->
           [a EXCEPT !.add_meet_link = IF TruthyBool(a.add_meet_link) THEN a.add_meet_link ELSE None]

\* ------------------------------------------------------ HTTP Facade
\* The pydantic request models: an absent optional field is None, an absent
\* add_meet_link is False.
ParseRequest(payload) ==
    [payload EXCEPT !.add_meet_link = IF @ = None THEN Some("false") ELSE @]

\* The requests a handler can receive: what an adapter's tool call puts on
\* the wire, or any well-formed body sent to the endpoint directly.
Requests(op, argsets) ==
    {ParseRequest(Marshal(op, a)) : a \in argsets} \cup {ParseRequest(a) : a \in argsets}

\* ------------------------------------------------------ result dicts
Dict == [tag |-> "dict", message |-> None, error |-> None, event_link |-> None,
         hangoutLink |-> None, events |-> None]

ErrorResult(text) == [Dict EXCEPT !.error = Some(text)]
Raised(exc) == [tag |-> "raise", exc |-> exc]

NotAvailable == ErrorResult(<<"Google Calendar service not available">>)
HttpErrorResult(err) == ErrorResult(<<"An error occurred: ", err>>)

IsError(res) == res.tag = "dict" /\ res.error # None

\* str(HTTPException(status, detail)) is "<status>: <detail>"
HTTPExceptionStr(status, detail) == <<ToString(status), ": ">> \o detail

\* What each endpoint answers for the agent's result (or exception).
\* /schedule wraps the call in try/except Exception, the others do not.
FacadeResponse(op, res) ==
    IF op = "create"
    THEN IF res.tag = "raise"
         THEN [status |-> 500, body |-> [tag |-> "detail",
                   detail |-> <<"Failed to schedule event: ", res.exc>>]]
         ELSE IF IsError(res)
         THEN [status |-> 500, body |-> [tag |-> "detail",
                   detail |-> <<"Failed to schedule event: ">>
                              \o HTTPExceptionStr(400, res.error[1])]]
         ELSE [status |-> 200, body |-> res]
    ELSE IF res.tag = "raise"
         THEN [status |-> 500, body |-> [tag |-> "text", text |-> "Internal Server Error"]]
         ELSE IF IsError(res)
         THEN [status |-> 400, body |-> [tag |-> "detail", detail |-> res.error[1]]]
         ELSE [status |-> 200, body |-> res]

NotInitialized ==
    [status |-> 500, body |-> [tag |-> "detail",
                               detail |-> <<"Calendar agent not initialized">>]]

\* ------------------------------------------- Tool Adapter, responses
Adapters == {"stdio", "streamable"}
Tools == {"list_upcoming_events", "create_calendar_event", "delete_event", "update_event"}

\* a body is JSON unless it is the plain text of an unhandled server error
IsJson(body) == body.tag # "text"

\* f"HTTP {response.status}: {error_text}": the prefix, the status and the
\* text of the body, in that order
HttpErrorText(status, text) == [prefix |-> "HTTP ", status |-> status, text |-> text]

\* str() of the error response.json() raises on a body that is no JSON: it
\* names the status and a decoding message
JsonErrorText(status) ==
    [prefix |-> "", status |-> status,
     text |-> [tag |-> "text", text |-> "Attempt to decode JSON with unexpected mimetype"]]

\* ClientCall with only 4xx and 5xx taken as failures
ClientCallLax(name, resp) ==
    IF resp.status >= 400
    THEN [raised |-> TRUE, value |-> HttpErrorText(resp.status, resp.body)]
    ELSE IF ~IsJson(resp.body)
    THEN [raised |-> TRUE, value |-> JsonErrorText(resp.status)]
    ELSE [raised |-> FALSE, value |-> resp.body]

\* CalendarServiceClient.<tool>, after the request: the check of
\* response.status and the decoding of the body (the same lines in the
\* four methods of both adapters).
ClientCall(name, resp) ==
    IF resp.status # 200
    THEN [raised |-> TRUE, value |-> HttpErrorText(resp.status, resp.body)]
    ELSE IF ~IsJson(resp.body)
    THEN [raised |-> TRUE, value |-> JsonErrorText(resp.status)]
    ELSE [raised |-> FALSE, value |-> resp.body]

\* handle_call_tool of the stdio adapter: the result as JSON text, or
\* RuntimeError(str(e))
StdioCallTool(name, resp) ==
    LET r == ClientCall(name, resp)
    IN IF r.raised
       THEN [kind |-> "raise", value |-> r.value]
       ELSE [kind |-> "content", value |-> r.value]

\* the @mcp.tool() functions of the streamable adapter: the result, or
\* {"error": str(e)}
StreamableTool(name, resp) ==
    LET r == ClientCall(name, resp)
    IN IF r.raised
       THEN [kind |-> "error_object", value |-> r.value]
       ELSE [kind |-> "result", value |-> r.value]

ToolOutcome(ad, name, resp) ==
    IF ad = "stdio" THEN StdioCallTool(name, resp) ELSE StreamableTool(name, resp)

\* ------------------------------------------------------ Calendar Client
\* ISO-8601 instants in chronological order: the position of t in Instants
Rank(t) == CHOOSE k \in DOMAIN Instants : Instants[k] = t

\* the operations without their session check
ServiceUnchecked == FALSE

\* `if not self.service` at the top of every operation
ServiceUnavailable == agent = "noservice"

\* create_calendar_event: the event dict sent to events().insert
NewEvent(req) ==
    [summary |-> req.summary[1],
     description |-> req.description,
     start |-> req.start_time[1],
     end |-> req.end_time[1],
     attendees |-> IF TruthyList(req.attendees) THEN req.attendees ELSE None]

\* ApplyUpdate without the `is not None` test on description
ApplyUpdateDescription(ev, req) ==
    [summary |-> IF req.summary # None THEN req.summary[1] ELSE ev.summary,
     description |-> req.description,
     start |-> IF req.start_time # None THEN req.start_time[1] ELSE ev.start,
     end |-> IF req.end_time # None THEN req.end_time[1] ELSE ev.end,
     attendees |-> IF req.attendees # None THEN req.attendees ELSE ev.attendees]

\* update_event: the fetched event with the supplied fields overwritten
ApplyUpdate(ev, req) ==
    [summary |-> IF req.summary # None THEN req.summary[1] ELSE ev.summary,
     description |-> IF req.description # None THEN req.description ELSE ev.description,
     start |-> IF req.start_time # None THEN req.start_time[1] ELSE ev.start,
     end |-> IF req.end_time # None THEN req.end_time[1] ELSE ev.end,
     attendees |-> IF req.attendees # None THEN req.attendees ELSE ev.attendees]

\* [a['email'] for a in event.get('attendees', [])] if 'attendees' in event else []
AttendeeEmails(ev) == IF ev.attendees # None THEN ev.attendees[1] ELSE <<>>

\* CreateRecipients falling back to the sender's own address
CreateRecipientsOrSender(req) ==
    IF TruthyList(req.attendees) THEN req.attendees[1] ELSE <<"testevank@gmail.com">>

\* create_calendar_event: `if attendees:` ... `for attendee in attendees`
CreateRecipients(req) == IF TruthyList(req.attendees) THEN req.attendees[1] ELSE <<>>

\* the uri of the last video entry point, as the loop over entryPoints leaves it
RECURSIVE LastVideo(_, _)
LastVideo(eps, acc) ==
    IF eps = <<>> THEN acc
    ELSE LastVideo(Tail(eps),
                   IF Head(eps).entryPointType = "video"
                   THEN Some(IF Head(eps).uri = None THEN Null ELSE Head(eps).uri[1])
                   ELSE acc)

\* HangoutLink without the add_meet_link test
HangoutLinkAlways(add_meet_link, conf) ==
    IF conf # None /\ conf[1].entryPoints # None
    THEN LastVideo(conf[1].entryPoints[1], None)
    ELSE None

\* response['hangoutLink']: set only when a link was asked for and the
\* response has conferenceData.entryPoints with a video entry
HangoutLink(add_meet_link, conf) ==
    IF TruthyBool(add_meet_link) /\ conf # None /\ conf[1].entryPoints # None
    THEN LastVideo(conf[1].entryPoints[1], None)
    ELSE None

\* event_result.get('htmlLink'): the key is always set, to null when missing
EventLink(link) == Some(IF link = None THEN Null ELSE link[1])

CreateResponse(req, link, conf) ==
    [Dict EXCEPT !.message = Some(<<"Event created successfully">>),
                 !.event_link = EventLink(link),
                 !.hangoutLink = HangoutLink(req.add_meet_link, conf)]

UpdateResponse(req, link, conf) ==
    [Dict EXCEPT !.message = Some(<<"Event updated successfully">>),
                 !.event_link = EventLink(link),
                 !.hangoutLink = HangoutLink(req.add_meet_link, conf)]

DeleteResponse(id) ==
    [Dict EXCEPT !.message = Some(<<"Event with ID ", id, " deleted successfully.">>)]

\* list_upcoming_events: maxResults of the events().list call
MaxResults == 10

\* events().list(timeMin=now, singleEvents, orderBy=startTime): the events
\* ending after now, ordered by start, at most MaxResults of them.  Events
\* with equal starts come in an order the API chooses.
UpcomingIds(now) ==
    {id \in DOMAIN calendar : calendar[id] # None /\ Rank(calendar[id][1].end) > Rank(now)}

RECURSIVE Orderings(_)
Orderings(S) ==
    IF S = {} THEN {<<>>}
    ELSE LET firsts == {id \in S : \A o \in S :
                           Rank(calendar[id][1].start) <= Rank(calendar[o][1].start)}
         IN UNION { {<<f>> \o rest : rest \in Orderings(S \ {f})} : f \in firsts }

FirstN(sq, n) == IF Len(sq) <= n THEN sq ELSE SubSeq(sq, 1, n)

\* An event without a title has no 'summary' key: its summary is Untitled.
Untitled == "(no summary key)"

\* ListResponse reporting each event's end as its start
ListResponseEnd(items) ==
    IF items = <<>>
    THEN [Dict EXCEPT !.message = Some(<<"No upcoming events found.">>),
                      !.events = Some(<<>>)]
    ELSE IF \E i \in 1..Len(items) : calendar[items[i]][1].summary = Untitled
    THEN Raised("KeyError")
    ELSE [Dict EXCEPT !.message = Some(<<"Upcoming events retrieved successfully">>),
                      !.events = Some([i \in 1..Len(items) |->
                                        [id |-> items[i],
                                         summary |-> calendar[items[i]][1].summary,
                                         start |-> calendar[items[i]][1].end]])]

\* list_upcoming_events: the result built from the events returned;
\* event["summary"] raises KeyError for an event without that key, and
\* only HttpError is caught.
ListResponse(items) ==
    IF items = <<>>
    THEN [Dict EXCEPT !.message = Some(<<"No upcoming events found.">>),
                      !.events = Some(<<>>)]
    ELSE IF \E i \in 1..Len(items) : calendar[items[i]][1].summary = Untitled
    THEN Raised("KeyError")
    ELSE [Dict EXCEPT !.message = Some(<<"Upcoming events retrieved successfully">>),
                      !.events = Some([i \in 1..Len(items) |->
                                        [id |-> items[i],
                                         summary |-> calendar[items[i]][1].summary,
                                         start |-> calendar[items[i]][1].start]])]

\* ------------------------------------------------------ state machine
Idle == [op |-> "none", req |-> NoArgs]

\* One entry of the log of calls that left the process: an external
\* calendar call (its event id, the body sent or the event returned, its
\* conferenceDataVersion, the HttpError text if rejected) or an email send
\* (its recipient, the SMTP exception if it raised).
NoCall == [call |-> "none", ok |-> TRUE, err |-> None, id |-> None, body |-> None,
           version |-> None, to |-> None, timeMin |-> None]

Rejected(call, err) == [NoCall EXCEPT !.call = call, !.ok = FALSE, !.err = Some(err)]

\* conferenceDataVersion=1 if add_meet_link else 0
ConferenceDataVersion(req) == Some(IF TruthyBool(req.add_meet_link) THEN "1" ELSE "0")

\* A client connection of the Facade with no request on it yet.
Clients == {"c1", "c2"}
NoHandler == [pc |-> "none", req |-> NoArgs, fetched |-> None, body |-> None,
              status |-> None, overlapped |-> FALSE]

\* calendar_client = CalendarServiceClient(): self.session = None; no
\* session created or closed yet, the process not shut down.
NoSession == [current |-> None, created |-> 0, closed |-> {}, stopped |-> FALSE]
NoInvocation == [pc |-> "none", tool |-> "none", used |-> None, concurrent |-> FALSE]

\* No request outstanding in the Facade, no tool invocation in the adapter.
NoTasks ==
    /\ handlers = [c \in Clients |-> NoHandler]
    /\ running = "nobody"
    /\ session = NoSession
    /\ invocations = [i \in 1..MaxInvocations |-> NoInvocation]

\* Startup of calendar_service.py: CalendarAgent(...) raised ("none"), or
\* build() raised HttpError and the agent holds service = None
\* ("noservice"), or the agent holds a session ("ready").
Init ==
    /\ agent \in {"none", "noservice", "ready"}
    /\ calendar = [id \in EventIds |-> None]
    /\ inv = Idle
    /\ pc = "idle"
    /\ event = None
    /\ recipients = <<>>
    /\ idx = 1
    /\ log = <<>>
    /\ result = None
    /\ http = None
    /\ adapter = "none"
    /\ tool = "none"
    /\ response = None
    /\ outcome = None
    /\ NoTasks

\* The operation returns res (or raises) and the endpoint answers.
Finish(res) ==
    /\ result' = Some(res)
    /\ http' = Some(FacadeResponse(inv.op, res))
    /\ pc' = "done"

\* A handler is entered: `if agent is None` in the endpoint, then
\* `if not self.service` in the agent's method.
Enter(op, req, first) ==
    /\ pc = "idle"
    /\ inv' = [op |-> op, req |-> req]
    /\ log' = <<>>
    /\ event' = None
    /\ recipients' = <<>>
    /\ idx' = 1
    /\ IF agent = "none"
       THEN /\ result' = None
            /\ http' = Some(NotInitialized)
            /\ pc' = "done"
       ELSE IF ServiceUnavailable
       THEN /\ result' = Some(NotAvailable)
            /\ http' = Some(FacadeResponse(op, NotAvailable))
            /\ pc' = "done"
       ELSE /\ result' = None
            /\ http' = None
            /\ pc' = first
    /\ UNCHANGED <<agent, calendar>>
    /\ UNCHANGED <<toolVars, taskVars>>

\* GET /events
ListEvents == \E r \in Requests("list", {NoArgs}) : Enter("list", r, "list")

\* POST /schedule
ScheduleEvent ==
    /\ \E id \in EventIds : calendar[id] = None
    /\ \E r \in Requests("create", CreateArgs) : Enter("create", r, "insert")

\* DELETE /event
DeleteEvent == \E r \in Requests("delete", DeleteArgs) : Enter("delete", r, "get")

\* PUT /event/update
UpdateEvent == \E r \in Requests("update", UpdateArgs) : Enter("update", r, "get")

\* GET /health
HealthCheck ==
    /\ pc = "idle"
    /\ inv' = [op |-> "health", req |-> NoArgs]
    /\ log' = <<>> /\ event' = None /\ recipients' = <<>> /\ idx' = 1
    /\ result' = None
    /\ http' = Some([status |-> 200,
                     body |-> [tag |-> "health",
                               status |-> IF agent # "none" THEN "healthy" ELSE "unhealthy",
                               agent_status |-> IF agent # "none" THEN "loaded" ELSE "not loaded"]])
    /\ pc' = "done"
    /\ UNCHANGED <<agent, calendar>>
    /\ UNCHANGED <<toolVars, taskVars>>

\* After the last notification: create and update return their response,
\* delete goes on to the delete call.
AfterNotify(res) ==
    IF inv.op = "delete"
    THEN /\ pc' = "delete" /\ UNCHANGED <<result, http>>
    ELSE Finish(res)

\* list_upcoming_events: events().list(...).execute()
EventsList ==
    /\ pc = "list"
    /\ \/ \E now \in Nows : \E S \in {UpcomingIds(now)} : \E items \in Orderings(S) :
            /\ log' = Append(log, [NoCall EXCEPT !.call = "list", !.timeMin = Some(now)])
            /\ Finish(ListResponse(FirstN(items, MaxResults)))
       \/ \E err \in ErrTexts \ {"notFound"} :
            /\ log' = Append(log, Rejected("list", err))
            /\ Finish(HttpErrorResult(err))
    /\ UNCHANGED <<agent, calendar, inv, event, recipients, idx>>
    /\ UNCHANGED <<toolVars, taskVars>>

\* EventsInsert with the invitations sent from a `finally`: a rejected
\* insert still notifies the attendees
EventsInsertNotifyAnyway ==
    /\ pc = "insert"
    /\ LET req == inv.req
           body == NewEvent(req)
       IN \/ \E id \in EventIds, link \in HtmlLinks, conf \in ConfDatas :
               /\ calendar[id] = None
               /\ Rank(body.start) <= Rank(body.end)
               /\ calendar' = [calendar EXCEPT ![id] = Some(body)]
               /\ log' = Append(log, [NoCall EXCEPT !.call = "insert", !.id = Some(id), !.body = Some(body),
                                                !.version = ConferenceDataVersion(req)])
               /\ recipients' = CreateRecipients(req)
               /\ IF recipients' = <<>>
                  THEN Finish(CreateResponse(req, link, conf))
                  ELSE /\ result' = Some(CreateResponse(req, link, conf))
                       /\ pc' = "send"
                       /\ UNCHANGED http
          \/ \E err \in ErrTexts \ {"notFound"} :
               /\ log' = Append(log, [Rejected("insert", err) EXCEPT !.body = Some(body),
                                                !.version = ConferenceDataVersion(req)])
               /\ recipients' = CreateRecipients(req)
               /\ IF recipients' = <<>>
                  THEN Finish(HttpErrorResult(err))
                  ELSE /\ result' = Some(HttpErrorResult(err))
                       /\ pc' = "send"
                       /\ UNCHANGED http
               /\ UNCHANGED calendar
    /\ UNCHANGED <<agent, inv, event, idx>>
    /\ UNCHANGED <<toolVars, taskVars>>

\* create_calendar_event: events().insert(...).execute(), the response dict
EventsInsert ==
    /\ pc = "insert"
    /\ LET req == inv.req
           body == NewEvent(req)
       IN \/ \E id \in EventIds, link \in HtmlLinks, conf \in ConfDatas :
               /\ calendar[id] = None
               /\ Rank(body.start) <= Rank(body.end)
               /\ calendar' = [calendar EXCEPT ![id] = Some(body)]
               /\ log' = Append(log, [NoCall EXCEPT !.call = "insert", !.id = Some(id), !.body = Some(body),
                                                !.version = ConferenceDataVersion(req)])
               /\ recipients' = CreateRecipients(req)
               /\ IF recipients' = <<>>
                  THEN Finish(CreateResponse(req, link, conf))
                  ELSE /\ result' = Some(CreateResponse(req, link, conf))
                       /\ pc' = "send"
                       /\ UNCHANGED http
          \/ \E err \in ErrTexts \ {"notFound"} :
               /\ log' = Append(log, [Rejected("insert", err) EXCEPT !.body = Some(body),
                                                !.version = ConferenceDataVersion(req)])
               /\ Finish(HttpErrorResult(err))
               /\ UNCHANGED <<calendar, recipients>>
    /\ UNCHANGED <<agent, inv, event, idx>>
    /\ UNCHANGED <<toolVars, taskVars>>

\* EventsGet with the delete issued straight after the fetch, before any
\* cancellation is sent
EventsGetDeleteFirst ==
    /\ pc = "get"
    /\ LET req == inv.req
           id == req.event_id[1]
       IN \/ /\ calendar[id] # None
             /\ log' = Append(log, [NoCall EXCEPT !.call = "get", !.id = Some(id), !.body = calendar[id]])
             /\ IF inv.op = "delete"
                THEN /\ event' = calendar[id]
                     /\ recipients' = AttendeeEmails(calendar[id][1])
                     /\ pc' = "delete"
                ELSE /\ event' = Some(ApplyUpdate(calendar[id][1], req))
                     /\ recipients' = <<>>
                     /\ pc' = "update"
             /\ UNCHANGED <<result, http>>
          \/ \E err \in ErrTexts :
               /\ err = "notFound" <=> calendar[id] = None
               /\ log' = Append(log, [Rejected("get", err) EXCEPT !.id = Some(id)])
               /\ Finish(HttpErrorResult(err))
               /\ UNCHANGED <<event, recipients>>
    /\ UNCHANGED <<agent, calendar, inv, idx>>
    /\ UNCHANGED <<toolVars, taskVars>>

\* delete_event / update_event: events().get(...).execute()
EventsGet ==
    /\ pc = "get"
    /\ LET req == inv.req
           id == req.event_id[1]
       IN \/ /\ calendar[id] # None
             /\ log' = Append(log, [NoCall EXCEPT !.call = "get", !.id = Some(id), !.body = calendar[id]])
             /\ IF inv.op = "delete"
                THEN /\ event' = calendar[id]
                     /\ recipients' = AttendeeEmails(calendar[id][1])
                     /\ pc' = IF recipients' # <<>> THEN "send" ELSE "delete"
                ELSE /\ event' = Some(ApplyUpdate(calendar[id][1], req))
                     /\ recipients' = <<>>
                     /\ pc' = "update"
             /\ UNCHANGED <<result, http>>
          \/ \E err \in ErrTexts :
               /\ err = "notFound" <=> calendar[id] = None
               /\ log' = Append(log, [Rejected("get", err) EXCEPT !.id = Some(id)])
               /\ Finish(HttpErrorResult(err))
               /\ UNCHANGED <<event, recipients>>
    /\ UNCHANGED <<agent, calendar, inv, idx>>
    /\ UNCHANGED <<toolVars, taskVars>>

\* EventsUpdate notifying the attendees of the event as fetched, before
\* the update
EventsUpdateNotifyPrior ==
    /\ pc = "update"
    /\ LET req == inv.req
           id == req.event_id[1]
           body == event[1]
       IN \/ \E link \in HtmlLinks, conf \in ConfDatas :
               /\ calendar[id] # None
               /\ Rank(body.start) <= Rank(body.end)
               /\ calendar' = [calendar EXCEPT ![id] = Some(body)]
               /\ log' = Append(log, [NoCall EXCEPT !.call = "update", !.id = Some(id), !.body = Some(body),
                                                !.version = ConferenceDataVersion(req)])
               /\ recipients' = AttendeeEmails(log[1].body[1])
               /\ IF recipients' = <<>>
                  THEN Finish(UpdateResponse(req, link, conf))
                  ELSE /\ result' = Some(UpdateResponse(req, link, conf))
                       /\ pc' = "send"
                       /\ UNCHANGED http
          \/ \E err \in ErrTexts \ {"notFound"} :
               /\ log' = Append(log, [Rejected("update", err) EXCEPT !.id = Some(id), !.body = Some(body),
                                                !.version = ConferenceDataVersion(req)])
               /\ Finish(HttpErrorResult(err))
               /\ UNCHANGED <<calendar, recipients>>
    /\ UNCHANGED <<agent, inv, event, idx>>
    /\ UNCHANGED <<toolVars, taskVars>>

\* update_event: events().update(...).execute(), the response dict
EventsUpdate ==
    /\ pc = "update"
    /\ LET req == inv.req
           id == req.event_id[1]
           body == event[1]
       IN \/ \E link \in HtmlLinks, conf \in ConfDatas :
               /\ calendar[id] # None
               /\ Rank(body.start) <= Rank(body.end)
               /\ calendar' = [calendar EXCEPT ![id] = Some(body)]
               /\ log' = Append(log, [NoCall EXCEPT !.call = "update", !.id = Some(id), !.body = Some(body),
                                                !.version = ConferenceDataVersion(req)])
               /\ recipients' = AttendeeEmails(body)
               /\ IF recipients' = <<>>
                  THEN Finish(UpdateResponse(req, link, conf))
                  ELSE /\ result' = Some(UpdateResponse(req, link, conf))
                       /\ pc' = "send"
                       /\ UNCHANGED http
          \/ \E err \in ErrTexts \ {"notFound"} :
               /\ log' = Append(log, [Rejected("update", err) EXCEPT !.id = Some(id), !.body = Some(body),
                                                !.version = ConferenceDataVersion(req)])
               /\ Finish(HttpErrorResult(err))
               /\ UNCHANGED <<calendar, recipients>>
    /\ UNCHANGED <<agent, inv, event, idx>>
    /\ UNCHANGED <<toolVars, taskVars>>

\* _send_meeting_email for the next recipient of the loop.  An SMTP
\* exception is no HttpError: it leaves the loop and the operation.
SendMeetingEmail ==
    /\ pc = "send"
    /\ idx <= Len(recipients)
    /\ \/ /\ log' = Append(log, [NoCall EXCEPT !.call = "send", !.to = Some(recipients[idx])])
          /\ idx' = idx + 1
          /\ IF idx = Len(recipients)
             THEN AfterNotify(result[1])
             ELSE UNCHANGED <<pc, result, http>>
       \/ \E exc \in SMTPErrors :
          /\ log' = Append(log, [Rejected("send", exc) EXCEPT !.to = Some(recipients[idx])])
          /\ Finish(Raised(exc))
          /\ UNCHANGED idx
    /\ UNCHANGED <<agent, calendar, inv, event, recipients>>
    /\ UNCHANGED <<toolVars, taskVars>>

\* delete_event: events().delete(...).execute()
EventsDelete ==
    /\ pc = "delete"
    /\ LET id == inv.req.event_id[1]
       IN \/ /\ calendar[id] # None
             /\ calendar' = [calendar EXCEPT ![id] = None]
             /\ log' = Append(log, [NoCall EXCEPT !.call = "delete", !.id = Some(id)])
             /\ Finish(DeleteResponse(id))
          \/ \E err \in ErrTexts \ {"notFound"} :
             /\ log' = Append(log, [Rejected("delete", err) EXCEPT !.id = Some(id)])
             /\ Finish(HttpErrorResult(err))
             /\ UNCHANGED calendar
    /\ UNCHANGED <<agent, inv, event, recipients, idx>>
    /\ UNCHANGED <<toolVars, taskVars>>

\* The response has been sent; the handler's locals are gone.
Return ==
    /\ pc = "done"
    /\ inv' = Idle
    /\ pc' = "idle"
    /\ event' = None
    /\ recipients' = <<>>
    /\ idx' = 1
    /\ log' = <<>>
    /\ result' = None
    /\ http' = None
    /\ UNCHANGED <<agent, calendar>>
    /\ UNCHANGED <<toolVars, taskVars>>

Next ==
    \/ ListEvents
    \/ ScheduleEvent
    \/ DeleteEvent
    \/ UpdateEvent
    \/ HealthCheck
    \/ EventsList
    \/ EventsInsert
    \/ EventsGet
    \/ EventsUpdate
    \/ SendMeetingEmail
    \/ EventsDelete
    \/ Return

Spec == Init /\ [][Next]_vars

\* ------------------------------------------------- Tool Adapter process
\* What the Facade (or whatever answers on its address) can send back.
Statuses == {200, 201, 204, 302, 400, 404, 422, 500, 503}

Bodies ==
    { [Dict EXCEPT !.message = Some(<<"Event created successfully">>),
                   !.event_link = Some("htmlLink")],
      [tag |-> "detail", detail |-> <<"An error occurred: ", "notFound">>],
      [tag |-> "text", text |-> "Internal Server Error"] }

InitAdapter ==
    /\ adapter \in Adapters
    /\ tool = "none"
    /\ response = None
    /\ outcome = None
    /\ agent = "ready"
    /\ calendar = [id \in EventIds |-> None]
    /\ inv = Idle
    /\ pc = "idle"
    /\ event = None
    /\ recipients = <<>>
    /\ idx = 1
    /\ log = <<>>
    /\ result = None
    /\ http = None
    /\ NoTasks

\* One tool invocation: the request goes out, resp comes back.
Invoke(name, resp) ==
    /\ tool' = name
    /\ response' = Some(resp)
    /\ outcome' = Some(ToolOutcome(adapter, name, resp))
    /\ UNCHANGED adapter
    /\ UNCHANGED <<facadeVars, taskVars>>

\* stdio adapter: handle_call_tool(name, arguments)
HandleCallTool ==
    /\ adapter = "stdio"
    /\ \E name \in Tools, st \in Statuses, b \in Bodies :
          Invoke(name, [status |-> st, body |-> b])

\* streamable adapter: the four tool functions
ToolListUpcomingEvents ==
    /\ adapter = "streamable"
    /\ \E st \in Statuses, b \in Bodies :
          Invoke("list_upcoming_events", [status |-> st, body |-> b])

ToolCreateCalendarEvent ==
    /\ adapter = "streamable"
    /\ \E st \in Statuses, b \in Bodies :
          Invoke("create_calendar_event", [status |-> st, body |-> b])

ToolDeleteEvent ==
    /\ adapter = "streamable"
    /\ \E st \in Statuses, b \in Bodies :
          Invoke("delete_event", [status |-> st, body |-> b])

ToolUpdateEvent ==
    /\ adapter = "streamable"
    /\ \E st \in Statuses, b \in Bodies :
          Invoke("update_event", [status |-> st, body |-> b])

NextAdapter ==
    \/ HandleCallTool
    \/ ToolListUpcomingEvents
    \/ ToolCreateCalendarEvent
    \/ ToolDeleteEvent
    \/ ToolUpdateEvent

SpecAdapter == InitAdapter /\ [][NextAdapter]_vars

\* ------------------------------------- create, then list (round trip)
\* An event that was in the calendar beforehand, with or without a title.
OtherEvent(start, titled) ==
    [summary |-> IF titled THEN "s1" ELSE Untitled, description |-> None,
     start |-> start, end |-> "t2", attendees |-> None]

\* The calendar with n other events starting between t0 and t1 and m
\* starting between t1 and t2, no two at the same instant; the u-th of
\* them (if u > 0) has no title.
CalendarWith(n, m, u) ==
    [id \in EventIds \cup {OtherIds[k] : k \in DOMAIN OtherIds} |->
        IF id \in EventIds THEN None
        ELSE LET k == CHOOSE j \in DOMAIN OtherIds : OtherIds[j] = id
             IN IF k <= n THEN Some(OtherEvent(EarlyTimes[k], k # u))
                ELSE IF k <= n + m THEN Some(OtherEvent(LateTimes[k - n], k # u))
                ELSE None]

InitList ==
    /\ agent = "ready"
    /\ \E n \in 0..MaxOthers, m \in 0..MaxOthers :
          /\ n + m <= MaxOthers
          /\ \E u \in 0..(n + m) : calendar = CalendarWith(n, m, u)
    /\ inv = Idle
    /\ pc = "idle"
    /\ event = None
    /\ recipients = <<>>
    /\ idx = 1
    /\ log = <<>>
    /\ result = None
    /\ http = None
    /\ adapter = "none"
    /\ tool = "none"
    /\ response = None
    /\ outcome = None
    /\ NoTasks

\* POST /schedule with summary, start_time and end_time only
PlainCreateArgs ==
    {a \in CreateArgs : a.attendees = None /\ a.description = None /\ a.add_meet_link = None}

SchedulePlainEvent ==
    /\ \E id \in EventIds : calendar[id] = None
    /\ \E r \in Requests("create", PlainCreateArgs) : Enter("create", r, "insert")

NextList ==
    \/ ListEvents
    \/ SchedulePlainEvent
    \/ DeleteEvent
    \/ EventsList
    \/ EventsInsert
    \/ EventsGet
    \/ EventsDelete
    \/ Return

SpecList == InitList /\ [][NextList]_vars

\* --------------------------- Facade with two update requests outstanding
\* PUT /event/update bodies that change the summary, the start, both or
\* nothing
PlainUpdates ==
    {ParseRequest(a) :
        a \in {u \in UpdateArgs : /\ u.end_time = None /\ u.attendees = None
                                  /\ u.description = None /\ u.add_meet_link = None}}

\* update_event awaiting its external calls, so that the event loop runs
\* other handlers meanwhile
AwaitsExternalCallsYes == TRUE

\* Whether the handler gives up the event loop at an external call.  The
\* endpoint is `async def` and calls agent.update_event(...) without await;
\* the agent's calls are blocking .execute() calls.
AwaitsExternalCalls == FALSE

\* One event in the calendar, no request received yet.
InitConcurrent ==
    /\ agent = "ready"
    /\ calendar = [id \in EventIds |->
                     Some([summary |-> "s1", description |-> None, start |-> "t1",
                           end |-> "t2", attendees |-> None])]
    /\ inv = Idle
    /\ pc = "idle"
    /\ event = None
    /\ recipients = <<>>
    /\ idx = 1
    /\ log = <<>>
    /\ result = None
    /\ http = None
    /\ adapter = "none"
    /\ tool = "none"
    /\ response = None
    /\ outcome = None
    /\ NoTasks

Outstanding(c) == handlers[c].pc \in {"received", "get", "update"}

\* A client's PUT /event/update reaches the server's socket.  This needs
\* no turn of the event loop: it happens while a handler is running too.
Receive(c) ==
    /\ handlers[c].pc = "none"
    /\ \E r \in PlainUpdates :
          handlers' = [h \in Clients |->
                         IF h = c
                         THEN [NoHandler EXCEPT !.pc = "received", !.req = r,
                                  !.overlapped = \E o \in Clients \ {c} : Outstanding(o)]
                         ELSE [handlers[h] EXCEPT !.overlapped = @ \/ Outstanding(h)]]
    /\ UNCHANGED <<running, session, invocations>>
    /\ UNCHANGED <<facadeVars, toolVars>>

\* The event loop, free, starts the handler of a received request:
\* `if agent is None`, then `if not self.service` in the agent.
StartHandler(c) ==
    /\ running = "nobody"
    /\ handlers[c].pc = "received"
    /\ IF agent = "none"
       THEN /\ handlers' = [handlers EXCEPT ![c].pc = "done", ![c].status = Some(500)]
            /\ UNCHANGED running
       ELSE IF ServiceUnavailable
       THEN /\ handlers' = [handlers EXCEPT ![c].pc = "done", ![c].status = Some(400)]
            /\ UNCHANGED running
       ELSE /\ handlers' = [handlers EXCEPT ![c].pc = "get"]
            /\ running' = c
    /\ UNCHANGED <<session, invocations>>
    /\ UNCHANGED <<facadeVars, toolVars>>

\* update_event: events().get(...).execute() and the overwriting of the
\* supplied fields
HandlerGet(c) ==
    /\ running = c
    /\ handlers[c].pc = "get"
    /\ LET req == handlers[c].req
           id == req.event_id[1]
       IN \/ /\ calendar[id] # None
             /\ handlers' = [handlers EXCEPT ![c].pc = "update",
                                             ![c].fetched = calendar[id],
                                             ![c].body = Some(ApplyUpdate(calendar[id][1], req))]
             /\ running' = IF AwaitsExternalCalls THEN "nobody" ELSE c
          \/ \E err \in ErrTexts :
               /\ err = "notFound" <=> calendar[id] = None
               /\ handlers' = [handlers EXCEPT ![c].pc = "done", ![c].status = Some(400)]
               /\ running' = "nobody"
    /\ UNCHANGED <<session, invocations>>
    /\ UNCHANGED <<facadeVars, toolVars>>

\* update_event: events().update(...).execute(); the event has no
\* attendees, so no notification follows and the handler returns.
HandlerUpdate(c) ==
    /\ running \in {c, "nobody"}
    /\ handlers[c].pc = "update"
    /\ LET id == handlers[c].req.event_id[1]
           body == handlers[c].body[1]
       IN \/ /\ calendar[id] # None
             /\ Rank(body.start) <= Rank(body.end)
             /\ AttendeeEmails(body) = <<>>
             /\ calendar' = [calendar EXCEPT ![id] = Some(body)]
             /\ handlers' = [handlers EXCEPT ![c].pc = "done", ![c].status = Some(200)]
          \/ \E err \in ErrTexts \ {"notFound"} :
               /\ handlers' = [handlers EXCEPT ![c].pc = "done", ![c].status = Some(400)]
               /\ UNCHANGED calendar
    /\ running' = "nobody"
    /\ UNCHANGED <<session, invocations>>
    /\ UNCHANGED <<agent, inv, pc, event, recipients, idx, log, result, http>>
    /\ UNCHANGED toolVars

NextConcurrent ==
    \/ \E c \in Clients : Receive(c)
    \/ \E c \in Clients : StartHandler(c)
    \/ \E c \in Clients : HandlerGet(c)
    \/ \E c \in Clients : HandlerUpdate(c)

SpecConcurrent == InitConcurrent /\ [][NextConcurrent]_vars

\* ------------------------------- Tool Adapter, the outbound HTTP session
\* ensure_session creating a session on every call
EnsureSessionAlways(s) ==
    [s EXCEPT !.current = Some(s.created + 1), !.created = @ + 1]

\* ensure_session: `if self.session is None: self.session = ClientSession()`;
\* nothing is awaited between the test and the assignment.
EnsureSession(s) ==
    IF s.current = None
    THEN [s EXCEPT !.current = Some(s.created + 1), !.created = @ + 1]
    ELSE s

\* close: `if self.session: await self.session.close(); self.session = None`
CloseSession(s) ==
    IF s.current # None
    THEN [s EXCEPT !.closed = @ \cup {s.current[1]}, !.current = None]
    ELSE s

InitSession ==
    /\ adapter \in Adapters
    /\ tool = "none"
    /\ response = None
    /\ outcome = None
    /\ agent = "ready"
    /\ calendar = [id \in EventIds |-> None]
    /\ inv = Idle
    /\ pc = "idle"
    /\ event = None
    /\ recipients = <<>>
    /\ idx = 1
    /\ log = <<>>
    /\ result = None
    /\ http = None
    /\ NoTasks

\* A tool invocation runs from its handler's entry through
\* `await self.ensure_session()` (which suspends nowhere) to the request
\* on self.session, and suspends waiting for the response.
CallTool(i) ==
    /\ ~session.stopped
    /\ invocations[i].pc = "none"
    /\ session' = EnsureSession(session)
    /\ \E name \in Tools :
          invocations' = [invocations EXCEPT ![i] =
                            [NoInvocation EXCEPT !.pc = "waiting", !.tool = name,
                                !.used = session'.current,
                                !.concurrent = \E j \in DOMAIN invocations :
                                                  invocations[j].pc = "waiting"]]
    /\ UNCHANGED <<handlers, running>>
    /\ UNCHANGED <<facadeVars, toolVars>>

\* The response arrives (or the request fails); `async with` releases it
\* and the invocation ends.  The session stays as it is.
ResponseArrives(i) ==
    /\ invocations[i].pc = "waiting"
    /\ invocations' = [invocations EXCEPT ![i].pc = "finished"]
    /\ UNCHANGED <<handlers, running, session>>
    /\ UNCHANGED <<facadeVars, toolVars>>

\* The server loop has ended (no invocation is in flight) and the
\* `finally` of main runs calendar_client.close(); the process exits.
Close ==
    /\ ~session.stopped
    /\ \A i \in DOMAIN invocations : invocations[i].pc # "waiting"
    /\ session' = [CloseSession(session) EXCEPT !.stopped = TRUE]
    /\ UNCHANGED <<handlers, running, invocations>>
    /\ UNCHANGED <<facadeVars, toolVars>>

NextSession ==
    \/ \E i \in 1..MaxInvocations : CallTool(i)
    \/ \E i \in 1..MaxInvocations : ResponseArrives(i)
    \/ Close

SpecSession == InitSession /\ [][NextSession]_vars

\* ---------------------------------------------------------- properties
Operations == {"list", "create", "update", "delete"}

IsSend(e) == e.call = "send"
IsExternal(e) == e.call # "send"

\* the notification sends attempted so far, and their recipients in order
Sends == SelectSeq(log, IsSend)
SentTo == [i \in 1..Len(Sends) |-> Sends[i].to[1]]

\* the external calls of the given kind made so far
Calls(kind) == {i \in DOMAIN log : log[i].call = kind}
Accepted(kind) == {i \in Calls(kind) : log[i].ok}

SendFailed == \E i \in DOMAIN log : IsSend(log[i]) /\ ~log[i].ok
RejectedCalls == {i \in DOMAIN log : IsExternal(log[i]) /\ ~log[i].ok}

Success == result # None /\ result[1].tag = "dict" /\ result[1].error = None
Answered200 == http # None /\ http[1].status = 200 /\ http[1].body = result[1]

\* C1: a create or update whose persist succeeded and whose attendee list
\* has N >= 1 entries attempts exactly N sends, one per attendee in list
\* order, whether or not an earlier send failed.
C1_EveryAttendeeAttempted ==
    (pc = "done" /\ inv.op \in {"create", "update"}
        /\ Accepted("insert") \cup Accepted("update") # {})
    => LET i == CHOOSE j \in Accepted("insert") \cup Accepted("update") : TRUE
           list == AttendeeEmails(log[i].body[1])
       IN Len(list) >= 1 => SentTo = list

\* C2: a delete of an existing event with attendees still issues the
\* external delete (and removes the event) when a cancellation send fails.
C2_DeleteDespiteSendFailure ==
    (pc = "done" /\ inv.op = "delete" /\ SendFailed)
    => /\ Calls("delete") # {}
       /\ calendar[inv.req.event_id[1]] = None

\* C3: when every external calendar call succeeds and some send raises,
\* create, update and delete return their success payload and the
\* endpoint answers 200 with it.
C3_SendFailureNotSurfaced ==
    (pc = "done" /\ inv.op \in {"create", "update", "delete"}
        /\ RejectedCalls = {} /\ SendFailed)
    => Success /\ Answered200

\* C4: when the external API rejects a call, the endpoint answers 400 with
\* the Calendar Client's failure message, which carries the external error
\* text, and the call is not retried.
C4_RejectionAnswered400 ==
    (pc = "done" /\ inv.op \in Operations /\ RejectedCalls # {})
    => LET i == CHOOSE j \in RejectedCalls : TRUE
       IN /\ Cardinality(Calls(log[i].call)) = 1
          /\ result[1].error = Some(<<"An error occurred: ", log[i].err[1]>>)
          /\ http[1].status = 400
          /\ http[1].body.tag = "detail"
          /\ http[1].body.detail = result[1].error[1]

\* C5: a Facade response whose status is outside 200..299 ends the tool
\* invocation in an error (raised by the stdio adapter, an {error} object
\* from the streamable adapter) whose text holds the status and the body.
C5_NonSuccessStatusIsToolError ==
    (outcome # None /\ response[1].status \notin 200..299)
    => /\ outcome[1].kind = (IF adapter = "stdio" THEN "raise" ELSE "error_object")
       /\ outcome[1].value.status = response[1].status
       /\ outcome[1].value.text = response[1].body

C5_Witness ==
    /\ adapter = "streamable" /\ tool = "update_event"
    /\ outcome # None /\ response[1].status = 404
    /\ outcome[1].kind = "error_object"

\* C6: an update with only summary supplied sends the fetched event with
\* its summary replaced: start, end, attendees and description as fetched,
\* and no conference request.
OnlySummary(req) ==
    /\ req.summary # None
    /\ req.start_time = None /\ req.end_time = None
    /\ req.attendees = None /\ req.description = None
    /\ ~TruthyBool(req.add_meet_link)

C6_OnlySummaryChanges ==
    (inv.op = "update" /\ OnlySummary(inv.req))
    => \A i \in Calls("update") :
          LET fetched == log[1].body[1]
              sent == log[i].body[1]
          IN /\ log[1].call = "get" /\ log[1].ok
             /\ sent.summary = inv.req.summary[1]
             /\ sent.start = fetched.start
             /\ sent.end = fetched.end
             /\ sent.attendees = fetched.attendees
             /\ sent.description = fetched.description
             /\ log[i].version = Some("0")

C6_Witness ==
    /\ pc = "done" /\ inv.op = "update" /\ OnlySummary(inv.req)
    /\ Accepted("update") # {}
    /\ log[1].body[1].summary # inv.req.summary[1]
    /\ log[1].body[1].description # None
    /\ log[1].body[1].attendees # None

\* C7: a create without attendees (none given, or an empty list) and a
\* delete of an event without attendees attempt no send; with a session,
\* the insert (the delete) is still issued, and the operation succeeds
\* when the external API accepts it.
C7_NoAttendeesNoSend ==
    /\ (inv.op = "create" /\ ~TruthyList(inv.req.attendees))
       => /\ Sends = <<>>
          /\ (pc = "done" /\ agent = "ready") => Calls("insert") # {}
          /\ (pc = "done" /\ Accepted("insert") # {}) => Success /\ Answered200
    /\ (inv.op = "delete" /\ Accepted("get") # {}
           /\ AttendeeEmails(log[1].body[1]) = <<>>)
       => /\ Sends = <<>>
          /\ pc = "done" => Calls("delete") # {}
          /\ (pc = "done" /\ Accepted("delete") # {})
             => Success /\ Answered200 /\ calendar[inv.req.event_id[1]] = None

C7_Witness ==
    /\ pc = "done" /\ inv.op = "create" /\ inv.req.attendees = Some(<<>>)
    /\ Accepted("insert") # {} /\ Success

\* C8: a create or update without add_meet_link has no hangoutLink in the
\* Calendar Client's payload, the endpoint's body or either adapter's tool
\* result, whatever conferenceData the external response holds.
ToolOf(op) ==
    CASE op = "list" -> "list_upcoming_events"
      [] op = "create" -> "create_calendar_event"
      [] op = "delete" -> "delete_event"
      [] op = "update" -> "update_event"

C8_NoMeetLinkUnlessAsked ==
    (inv.op \in {"create", "update"} /\ ~TruthyBool(inv.req.add_meet_link))
    => /\ (result # None /\ result[1].tag = "dict") => result[1].hangoutLink = None
       /\ (http # None /\ http[1].body.tag = "dict") => http[1].body.hangoutLink = None
       /\ http # None =>
             \A ad \in Adapters :
                LET o == ToolOutcome(ad, ToolOf(inv.op), http[1])
                IN o.kind \in {"content", "result"} => o.value.hangoutLink = None

C8_Witness ==
    /\ pc = "done" /\ inv.op = "update" /\ inv.req.add_meet_link = Some("false")
    /\ Success /\ Answered200

\* C9: /health says "unhealthy" whenever initialization failed (no agent,
\* or an agent without a session), and "healthy" only when the operations
\* can reach the external API.
C9_HealthReflectsInitialization ==
    (pc = "done" /\ inv.op = "health")
    => (http[1].body.status = "healthy" <=> agent = "ready")

\* C10: without a calendar session each of the four operations returns a
\* failure result and makes no external call and no send.
C10_NoSessionNoCalls ==
    (agent = "noservice" /\ inv.op \in Operations)
    => /\ pc = "done"
       /\ log = <<>>
       /\ result # None /\ IsError(result[1])

C10_Witness ==
    /\ agent = "noservice" /\ inv.op = "update" /\ pc = "done"
    /\ result = Some(NotAvailable)

\* C11: with the dependency unavailable (no agent constructed, or an agent
\* constructed without a session) every operation endpoint answers with a
\* 5xx status, never with 400.
C11_UnavailableIs5xx ==
    (pc = "done" /\ inv.op \in Operations /\ agent # "ready")
    => http[1].status \in 500..599

\* C13: no payload holds event_link or hangoutLink with a null value: each
\* is absent or holds a string, whatever the external response contains;
\* this holds of the Calendar Client's result and of the endpoint's body.
C13_NoNullLink ==
    /\ (result # None /\ result[1].tag = "dict")
       => /\ result[1].event_link # Some(Null)
          /\ result[1].hangoutLink # Some(Null)
    /\ (http # None /\ http[1].body.tag = "dict")
       => /\ http[1].body.event_link # Some(Null)
          /\ http[1].body.hangoutLink # Some(Null)

\* C14: delete_event fetches the event, then sends the cancellations to
\* the attendees the fetch returned, then issues the external delete: every
\* send precedes the delete call, goes to a captured attendee in list
\* order, and the delete call is made only once every captured attendee's
\* send has been attempted.
C14_DeleteAfterCancellations ==
    inv.op = "delete"
    => /\ Sends # <<>> \/ Calls("delete") # {} => log[1].call = "get" /\ log[1].ok
       /\ Sends # <<>> =>
             LET fetched == log[1].body[1]
                 captured == IF fetched.attendees # None THEN fetched.attendees[1] ELSE <<>>
             IN /\ Len(SentTo) <= Len(captured)
                /\ SentTo = SubSeq(captured, 1, Len(SentTo))
       /\ \A i \in Calls("delete") :
             LET fetched == log[1].body[1]
                 captured == IF fetched.attendees # None THEN fetched.attendees[1] ELSE <<>>
             IN /\ SentTo = captured
                /\ \A j \in DOMAIN log : IsSend(log[j]) => j < i

C14_Witness ==
    /\ pc = "done" /\ inv.op = "delete"
    /\ Accepted("delete") # {}
    /\ Len(Sends) = 2
    /\ calendar[inv.req.event_id[1]] = None

\* C15: after a successful update_event the "updated" notifications have
\* gone to exactly the attendee list of the event the external update call
\* returned: the supplied list when attendees were supplied (an attendee
\* left out of it gets nothing), the fetched event's attendees otherwise.
C15_NotifiesResultingAttendees ==
    (pc = "done" /\ inv.op = "update" /\ Success)
    => /\ Accepted("update") # {}
       /\ LET i == CHOOSE j \in Accepted("update") : TRUE
              returned == log[i].body[1]
              fetched == log[1].body[1]
          IN /\ SentTo = (IF returned.attendees # None THEN returned.attendees[1] ELSE <<>>)
             /\ inv.req.attendees # None => SentTo = inv.req.attendees[1]
             /\ inv.req.attendees = None
                => SentTo = (IF fetched.attendees # None THEN fetched.attendees[1] ELSE <<>>)

C15_Witness ==
    /\ pc = "done" /\ inv.op = "update" /\ Success
    /\ inv.req.attendees = Some(<<"b@x">>)
    /\ log[1].body[1].attendees = Some(<<"a@x", "b@x">>)
    /\ SentTo = <<"b@x">>

\* C18: in create, update and delete an HttpError from an external call
\* ends the operation with a failure result: the rejected call is the last
\* thing the operation does (no send and no external call after it), and a
\* rejected fetch or persist means no notification at all.
C18_HttpErrorEndsOperation ==
    (inv.op \in {"create", "update", "delete"})
    => \A i \in RejectedCalls :
          /\ i = Len(log)
          /\ pc = "done"
          /\ result # None /\ result[1].tag = "dict"
          /\ result[1].error = Some(<<"An error occurred: ", log[i].err[1]>>)
          /\ log[i].call \in {"insert", "get", "update"} => Sends = <<>>

C18_Witness ==
    /\ pc = "done" /\ inv.op = "update"
    /\ Len(log) = 2 /\ log[1].call = "get" /\ log[1].ok
    /\ log[2].call = "update" /\ ~log[2].ok
    /\ log[2].body[1].attendees = Some(<<"a@x", "b@x">>)
    /\ Sends = <<>>
    /\ IsError(result[1])

\* the entry of the list result for the event stored under id
Listed(id) ==
    \E k \in DOMAIN result[1].events[1] :
       result[1].events[1][k] = [id |-> id,
                                 summary |-> calendar[id][1].summary,
                                 start |-> calendar[id][1].start]

\* the other events of the list call's window that start no later than id
StartingNoLater(id, now) ==
    {o \in UpcomingIds(now) \ {id} :
        Rank(calendar[o][1].start) <= Rank(calendar[id][1].start)}

\* a successful create has stored the event under the returned id with
\* the summary and the start supplied
StoredAsSupplied ==
    (pc = "done" /\ inv.op = "create" /\ Success)
    => \E i \in Accepted("insert") :
          LET id == log[i].id[1]
          IN /\ calendar[id] # None
             /\ calendar[id][1].summary = inv.req.summary[1]
             /\ calendar[id][1].start = inv.req.start_time[1]

BothPersisted ==
    \A c \in Clients : /\ handlers[c].pc = "done"
                       /\ handlers[c].status = Some(200)
                       /\ handlers[c].overlapped

\* C16 as claimed, for two concurrent update_event requests on one event
\* that have both persisted: each body was built from the same pre-update
\* fetch.
C16_ConcurrentUpdatesShareFetch ==
    BothPersisted
    => \A c, d \in Clients : handlers[c].fetched = handlers[d].fetched

\* C16, amended: the Facade handles one request at a time.  At most one
\* handler is between its start and its return, and while a handler is
\* between its fetch and its persist the event it fetched is the event
\* stored: the body it persists is built from the current event, so no
\* update made through the Facade is overwritten unseen.
C16_HandlersSerialized ==
    /\ Cardinality({c \in Clients : handlers[c].pc \in {"get", "update"}}) <= 1
    /\ \A c \in Clients :
          handlers[c].pc = "update"
          => handlers[c].fetched = calendar[handlers[c].req.event_id[1]]

C16_Witness ==
    /\ BothPersisted
    /\ handlers["c1"].req.summary = Some("s2") /\ handlers["c1"].req.start_time = None
    /\ handlers["c2"].req.summary = None /\ handlers["c2"].req.start_time = Some("t2")
    /\ handlers["c1"].fetched[1].summary = "s1"
    /\ handlers["c2"].fetched = handlers["c1"].body
    /\ calendar["e1"][1].summary = "s2" /\ calendar["e1"][1].start = "t2"

\* C17: between process start and close() at most one outbound session is
\* created, by the first invocation that needs it; every invocation issues
\* its request on that session (never on none, never on a closed one), and
\* close() closes it and leaves session = None.
C17_OneSessionReused ==
    /\ session.created <= 1
    /\ session.created = 1 <=> \E i \in DOMAIN invocations : invocations[i].pc # "none"
    /\ \A i \in DOMAIN invocations :
          /\ invocations[i].pc # "none" => invocations[i].used = Some(1)
          /\ invocations[i].pc = "waiting"
             => /\ invocations[i].used = session.current
                /\ invocations[i].used[1] \notin session.closed
    /\ ~session.stopped => (session.closed = {} /\ (session.created = 1 => session.current = Some(1)))
    /\ session.stopped => (session.current = None /\ session.closed = 1..session.created)

C17_Witness ==
    /\ session.stopped /\ session.current = None /\ session.closed = {1}
    /\ \A i \in DOMAIN invocations : invocations[i].pc = "finished"
    /\ \E i \in DOMAIN invocations : invocations[i].concurrent

====
